---- MODULE Spec2Model ----
\* Server-side session lifecycle of flask_sss (src/flask_sss/__init__.py):
\* SQLAlchemySessionInterface.open_session / save_session over a table of session
\* records, the dirty-tracking ServerSideSession, and the request handlers that
\* mutate it between the two phases.
EXTENDS Integers, Sequences, FiniteSets, TLC

\* ---------------------------------------------------------------- bounds
MaxTime == 3
Lifetime == 2

\* The requests in flight, each served once: open phase, handler, save phase.
Requests == {1, 2}

\* ---------------------------------------------------------------- values
\* The keys a handler writes. "_permanent" is the key flask's SessionMixin keeps
\* the permanent flag under (SessionMixin.permanent reads self.get("_permanent",
\* False) and its setter does self["_permanent"] = bool(value)).
Keys == {"_permanent", "user"}
KeyOrder == <<"_permanent", "user">>
Values == {0, 1}

\* Python None for a datetime column (get_expiration_time returns None for a
\* session that is not permanent).
NoneTime == -1
\* A cookie value that the server never minted (the client made it up).
ClientSid == 0
NoUser == 0
\* request.cookies.get(name) of a request without the cookie: falsy, like "".
NoCookie == << >>

Empty == [k \in {} |-> 0]
SetKey(m, k, v) == [x \in (DOMAIN m) \cup {k} |-> IF x = k THEN v ELSE m[x]]
DelKey(m, k) == [x \in (DOMAIN m) \ {k} |-> m[x]]
\* A test that finds no mapping empty.
IsEmpty_never(m) == FALSE

\* `not session`: the mapping holds no key
IsEmpty(m) == DOMAIN m = {}

VARIABLES
  store,      \* the session table: a set of rows
  now,        \* datetime.now(timezone.utc)
  req,        \* per request: position, cookie, Session Object, response, error
  permanent,  \* SQLAlchemySessionInterface.permanent (constructor argument)
  refresh     \* app.config["SESSION_REFRESH_EACH_REQUEST"]

vars == <<store, now, req, permanent, refresh>>

\* ---------------------------------------------------------------- serializer
RECURSIVE Encode(_, _)
Encode(m, ks) ==
  IF ks = << >> THEN << >>
  ELSE (IF Head(ks) \in DOMAIN m THEN << <<Head(ks), m[Head(ks)]>> >> ELSE << >>)
       \o Encode(m, Tail(ks))

\* A serializer that leaves out the keys starting with an underscore.
dumps_public(m) == [body |-> Encode(m, <<"user">>), closed |-> TRUE]

\* dumps: the mapping written out as a closed text of key/value pairs.
dumps(m) == [body |-> Encode(m, KeyOrder), closed |-> TRUE]

Decode(body) ==
  [k \in {body[i][1] : i \in DOMAIN body} |->
     body[CHOOSE i \in DOMAIN body : body[i][1] = k][2]]

\* loads: fails with a decode error on a text that is not closed (truncated).
loads(d) ==
  IF d.closed THEN [ok |-> TRUE, value |-> Decode(d.body)]
  ELSE [ok |-> FALSE, value |-> Empty]

\* ---------------------------------------------------------------- session object
\* SessionMixin.permanent (getter)
Permanent(contents) ==
  "_permanent" \in DOMAIN contents /\ contents["_permanent"] # 0

\* ServerSideSession.__init__: CallbackDict over `initial`, sid, modified = False,
\* then `if permanent: self.permanent = permanent`, which is a key set on the
\* CallbackDict and so runs on_update.
ServerSideSession(sid, initial, perm) ==
  IF perm
  THEN [sid |-> sid, contents |-> SetKey(initial, "_permanent", 1), modified |-> TRUE]
  ELSE [sid |-> sid, contents |-> initial, modified |-> FALSE]

NoSession == [sid |-> ClientSid, contents |-> Empty, modified |-> FALSE]

\* ---------------------------------------------------------------- minting
\* make_session_id() and make_id(): unique tokens. A request mints at most one of
\* each, so the token minted for request r is named after r; the two functions
\* draw from token spaces that do not meet.
make_session_id(r) == r
make_id(r) == Cardinality(Requests) + r

\* ---------------------------------------------------------------- store
\* query(model).filter(model.session_id == sid)
query(sid) == {rec \in store : rec.session_id = sid}
\* .first(): none, or any one of the matching rows (no ORDER BY)
first(S) == IF S = {} THEN {{}} ELSE {{x} : x \in S}

\* A delete that is never committed.
delete_uncommitted(row) == store

\* orm_session.delete(row); commit: DELETE ... WHERE id = row.id
delete(row) == {x \in store : x.id # row.id}
\* An update whose commit writes nothing.
update_lost(row, val, expires) == store

\* An update that rebuilds the row as an insert would, without an owner.
update_disown(row, val, expires) ==
  {IF x.id = row.id THEN [x EXCEPT !.data = val, !.user_id = NoUser] ELSE x :
     x \in store}

\* An update that writes only over the row as it was read (first writer wins).
update_unless_changed(row, val, expires) ==
  {IF x = row THEN [x EXCEPT !.data = val] ELSE x : x \in store}

\* row.data = val; commit: UPDATE ... SET data WHERE id = row.id
\* (line 135 assigns the attribute `expiry`, which is no column of the row)
update(row, val, expires) ==
  {IF x.id = row.id THEN [x EXCEPT !.data = val] ELSE x : x \in store}
\* The row built with the session id in the place of the record id.
add_swapped(id, sid, val, expires) ==
  store \cup {[id |-> sid, session_id |-> id, expires_at |-> expires,
               data |-> val, user_id |-> NoUser]}

\* orm_session.add(model(id, session_id, data, expires_at)); commit
add(id, sid, val, expires) ==
  store \cup {[id |-> id, session_id |-> sid, expires_at |-> expires,
               data |-> val, user_id |-> NoUser]}

\* ---------------------------------------------------------------- flask helpers
\* A gate that lets every non-empty session through.
should_set_cookie_always(s) == TRUE

\* SessionInterface.should_set_cookie
should_set_cookie(s) == s.modified \/ (Permanent(s.contents) /\ refresh)
\* SessionInterface.get_expiration_time
get_expiration_time(s) ==
  IF Permanent(s.contents) THEN now + Lifetime ELSE NoneTime

NoResponse == << >>
SetCookie(v, e) == [op |-> "set_cookie", value |-> v, expires |-> e]
DeleteCookie == [op |-> "delete_cookie", value |-> ClientSid, expires |-> NoneTime]

\* The session ids the server has handed out in a cookie so far.
Issued ==
  {req[q].response[1].value :
     q \in {x \in Requests : /\ Len(req[x].response) = 1
                             /\ req[x].response[1].op = "set_cookie"}}
\* What a request can carry: no cookie, a made-up value, a value the server set
\* in an earlier response, or the session id of a record in the table.
Cookies ==
  {NoCookie, <<ClientSid>>} \cup {<<s>> : s \in Issued}
    \cup {<<x.session_id>> : x \in store}

Failures == {"none", "lookup", "commit"}

InitReq ==
  [pc |-> "start", cookie |-> NoCookie, session |-> NoSession,
   response |-> NoResponse, opened |-> "", saved |-> "", error |-> "",
   fault |-> "none", found |-> {}]

Init ==
  /\ store = {}
  /\ now = 0
  /\ req = [r \in Requests |-> InitReq]
  /\ permanent \in BOOLEAN
  /\ refresh \in BOOLEAN

the(S) == CHOOSE x \in S : TRUE

\* An expiry test that is one time unit early.
Expired_early(row) == row.expires_at <= now + 1

\* line 89: saved_session.expires_at <= datetime.now(timezone.utc)
Expired(row) == row.expires_at <= now

\* lines 83-84: no cookie, mint a session id
NewSession(r) == ServerSideSession(make_session_id(r), Empty, permanent)
\* line 99: the decoded record under the cookie's sid (permanent is not passed)
LoadedSession(sid, data) == ServerSideSession(sid, data, FALSE)
\* Recovery that keeps the cookie's session id.
RecoveredSession_same(r, sid) == ServerSideSession(sid, Empty, permanent)

\* line 101: decoding failed, start over under a newly minted session id
RecoveredSession(r, sid) == ServerSideSession(make_session_id(r), Empty, permanent)
\* A session for a missing record that drops the cookie's session id.
MissingSession_reset(sid) == ServerSideSession(ClientSid, Empty, permanent)

\* line 103: no record (or an expired one, deleted): same sid, no contents
MissingSession(sid) == ServerSideSession(sid, Empty, permanent)

\* open_session returns a Session Object: the handler runs next.
Return(r, cookie, session, branch) ==
  req' = [req EXCEPT ![r].pc = "handling", ![r].cookie = cookie,
                     ![r].session = session, ![r].opened = branch,
                     ![r].fault = "none"]

\* An exception leaves open_session: the request fails.
RaiseOpen(r, cookie, what, branch, fail) ==
  req' = [req EXCEPT ![r].pc = "error", ![r].cookie = cookie,
                     ![r].error = what, ![r].opened = branch,
                     ![r].fault = fail]

\* ---------------------------------------------------------------- open phase
open_session(r, cookie, fail) ==
  /\ req[r].pc = "start"
  /\ cookie \in Cookies
  /\ UNCHANGED <<now, permanent, refresh>>
  /\ IF cookie = NoCookie
     THEN /\ fail = "none"
          /\ Return(r, cookie, NewSession(r), "nocookie")
          /\ store' = store
     ELSE LET sid == cookie[1] IN
          IF fail = "lookup"
          THEN RaiseOpen(r, cookie, "StoreError", "lookup", fail) /\ store' = store
          ELSE \E saved_session \in first(query(sid)) :
            IF saved_session = {}
            THEN /\ fail = "none"
                 /\ Return(r, cookie, MissingSession(sid), "missing")
                 /\ store' = store
            ELSE LET row == the(saved_session) IN
              IF row.expires_at = NoneTime
              THEN \* None <= datetime raises TypeError, outside the try block
                   /\ fail = "none"
                   /\ RaiseOpen(r, cookie, "TypeError", "noexpiry", fail)
                   /\ store' = store
              ELSE IF Expired(row)
              THEN IF fail = "commit"
                   THEN RaiseOpen(r, cookie, "StoreError", "expired", fail) /\ store' = store
                   ELSE /\ store' = delete(row)
                        /\ Return(r, cookie, MissingSession(sid), "expired")
              ELSE /\ fail = "none"
                   /\ store' = store
                   /\ IF loads(row.data).ok
                      THEN Return(r, cookie, LoadedSession(sid, loads(row.data).value), "valid")
                      ELSE Return(r, cookie, RecoveredSession(r, sid), "corrupt")

\* ---------------------------------------------------------------- handler
\* A callback that records nothing.
on_update_off(s) == s

\* CallbackDict: every mutation calls on_update, which sets modified = True.
on_update(s) == [s EXCEPT !.modified = TRUE]

Handle(r, session) ==
  /\ req[r].pc = "handling"
  /\ req' = [req EXCEPT ![r].session = session]
  /\ UNCHANGED <<store, now, permanent, refresh>>

\* session[k] = v
SetItem(r, k, v) ==
  Handle(r, on_update([req[r].session EXCEPT !.contents = SetKey(@, k, v)]))

\* del session[k] (a missing key raises KeyError before on_update runs)
DelItem(r, k) ==
  /\ k \in DOMAIN req[r].session.contents
  /\ Handle(r, on_update([req[r].session EXCEPT !.contents = DelKey(@, k)]))

\* session.clear()
Clear(r) ==
  Handle(r, on_update([req[r].session EXCEPT !.contents = Empty]))

\* session.get(k): a read calls no on_update
GetItem(r, k) ==
  Handle(r, req[r].session)

\* ---------------------------------------------------------------- save phase
\* save_session returns; `response` is what it did to the response's cookies.
Done(r, branch, response) ==
  req' = [req EXCEPT ![r].pc = "done", ![r].saved = branch,
                     ![r].response = response, ![r].found = {}]

\* The exception caught and the cookie set all the same.
RaiseSave_masked(r, what, branch, fail) ==
  req' = [req EXCEPT ![r].pc = "done", ![r].saved = branch, ![r].fault = fail,
                     ![r].response = <<SetCookie(req[r].session.sid, NoneTime)>>,
                     ![r].found = {}]

\* An exception leaves save_session before any later statement runs.
RaiseSave(r, what, branch, fail) ==
  req' = [req EXCEPT ![r].pc = "error", ![r].error = what, ![r].saved = branch,
                     ![r].fault = fail, ![r].found = {}]

\* The row the session looked up is still a row of the table. An UPDATE that
\* matches no row makes the commit fail (StaleDataError); a DELETE that matches no
\* row only warns.
Live(row) == \E x \in store : x.id = row.id

\* Every empty session treated as an emptied one.
Emptied_always(session) == TRUE

\* line 118: an empty session that was modified had its contents removed
Emptied(session) == session.modified

\* lines 117-154, given the row that lines 114-116 found (none: {})
save_write(r, saved_session, fail) ==
  LET session == req[r].session
      sid == session.sid
  IN
  IF IsEmpty(session.contents)
  THEN IF Emptied(session)
       THEN IF saved_session # {}
            THEN IF fail = "commit"
                 THEN RaiseSave(r, "StoreError", "cleared", fail) /\ store' = store
                 ELSE /\ store' = delete(the(saved_session))
                      /\ Done(r, "cleared", <<DeleteCookie>>)
            ELSE /\ fail = "none"
                 /\ store' = store
                 /\ Done(r, "cleared", <<DeleteCookie>>)
       ELSE /\ fail = "none"
            /\ store' = store
            /\ Done(r, "untouched", NoResponse)
  ELSE IF ~should_set_cookie(session)
  THEN /\ fail = "none"
       /\ store' = store
       /\ Done(r, "gate", NoResponse)
  ELSE LET expires == get_expiration_time(session)
           val == dumps(session.contents)
       IN
       IF saved_session # {}
       THEN IF fail = "commit" \/ ~Live(the(saved_session))
            THEN RaiseSave(r, "StoreError", "updated", IF fail = "none" THEN "stale" ELSE fail) /\ store' = store
            ELSE /\ store' = update(the(saved_session), val, expires)
                 /\ Done(r, "updated", <<SetCookie(sid, expires)>>)
       ELSE IF fail = "commit"
            THEN RaiseSave(r, "StoreError", "inserted", fail) /\ store' = store
            ELSE /\ store' = add(make_id(r), sid, val, expires)
                 /\ Done(r, "inserted", <<SetCookie(sid, expires)>>)

\* save_session, start to end
save_session(r, fail) ==
  /\ req[r].pc = "handling"
  /\ UNCHANGED <<now, permanent, refresh>>
  /\ IF fail = "lookup"
     THEN RaiseSave(r, "StoreError", "lookup", fail) /\ store' = store
     ELSE \E saved_session \in first(query(req[r].session.sid)) :
            save_write(r, saved_session, fail)

\* ---------------------------------------------------------------- environment
\* Time passes.
Tick ==
  /\ now < MaxTime
  /\ now' = now + 1
  /\ UNCHANGED <<store, req, permanent, refresh>>

\* A stored payload becomes unreadable to the serializer (truncated text,
\* incompatible schema): the case lines 96-101 recover from.
Corrupt ==
  \E row \in store :
    /\ row.data.closed
    /\ store' = (store \ {row}) \cup {[row EXCEPT !.data.closed = FALSE]}
    /\ UNCHANGED <<now, req, permanent, refresh>>

Next ==
  \/ \E r \in Requests, c \in Cookies, f \in Failures : open_session(r, c, f)
  \/ \E r \in Requests, k \in Keys, v \in Values : SetItem(r, k, v)
  \/ \E r \in Requests, k \in Keys : DelItem(r, k)
  \/ \E r \in Requests : Clear(r)
  \/ \E r \in Requests, k \in Keys : GetItem(r, k)
  \/ \E r \in Requests, f \in Failures : save_session(r, f)
  \/ Tick
  \/ Corrupt

Spec == Init /\ [][Next]_vars

\* ---------------------------------------------------------------- concurrent saves
\* Requests served by different workers: the lookup of save_session (lines
\* 113-116) and its writes (lines 117-154) are separate statements, and another
\* request's phase can run between them.
SaveLookup(r, fail) ==
  /\ req[r].pc = "handling"
  /\ UNCHANGED <<store, now, permanent, refresh>>
  /\ IF fail = "lookup"
     THEN RaiseSave(r, "StoreError", "lookup", fail)
     ELSE /\ fail = "none"
          /\ \E saved_session \in first(query(req[r].session.sid)) :
               req' = [req EXCEPT ![r].pc = "saving", ![r].found = saved_session]

SaveWrite(r, fail) ==
  /\ req[r].pc = "saving"
  /\ fail # "lookup"
  /\ UNCHANGED <<now, permanent, refresh>>
  /\ save_write(r, req[r].found, fail)

NextConc ==
  \/ \E r \in Requests, c \in Cookies, f \in Failures : open_session(r, c, f)
  \/ \E r \in Requests, k \in Keys, v \in Values : SetItem(r, k, v)
  \/ \E r \in Requests, k \in Keys : DelItem(r, k)
  \/ \E r \in Requests : Clear(r)
  \/ \E r \in Requests, k \in Keys : GetItem(r, k)
  \/ \E r \in Requests, f \in Failures : SaveLookup(r, f)
  \/ \E r \in Requests, f \in Failures : SaveWrite(r, f)
  \/ Tick
  \/ Corrupt

ConcSpec == Init /\ [][NextConc]_vars

\* ---------------------------------------------------------------- an existing session
\* The table as an earlier request left it: the record of a permanent session
\* saved at time 0, whose owning user was set from outside since. The interface
\* is built with its default, permanent = None.
EarlierUser == 1
Earlier ==
  [id |-> 2 * Cardinality(Requests) + 1,
   session_id |-> Cardinality(Requests) + 1,
   expires_at |-> Lifetime,
   data |-> dumps(SetKey(SetKey(Empty, "_permanent", 1), "user", 0)),
   user_id |-> EarlierUser]

InitEarlier ==
  /\ store = {Earlier}
  /\ now = 0
  /\ req = [r \in Requests |-> InitReq]
  /\ permanent = FALSE
  /\ refresh \in BOOLEAN

\* Concurrent requests over the table that holds the earlier session.
RaceSpec == InitEarlier /\ [][NextConc]_vars

\* ================================================================ properties
\* The step in which request r runs its open phase / its save phase (Spec).
OpenStep(r) == req[r].pc = "start" /\ req'[r].pc # "start"
SaveStep(r) == req[r].pc = "handling" /\ req'[r].pc \in {"done", "error"}

\* The step in which r's save phase runs its writes, after its lookup
\* (ConcSpec, RaceSpec).
WriteStep(r) == req[r].pc = "saving" /\ req'[r].pc \in {"done", "error"}

HasExpiry(row) == row.expires_at # NoneTime
SetCookies(r) == {i \in DOMAIN req[r].response : req[r].response[i].op = "set_cookie"}
\* Request q's save phase wrote its session to the table.
Persisted(q) == req[q].pc = "done" /\ req[q].saved \in {"inserted", "updated"}

C2_ExpiredOpen ==
  [][\A r \in Requests : \A row \in store :
       ( /\ OpenStep(r)
         /\ req'[r].cookie = <<row.session_id>>
         /\ HasExpiry(row) /\ row.expires_at <= now
         /\ req'[r].fault = "none" )
       => /\ req'[r].pc = "handling"
          /\ \A x \in store' : x.session_id # row.session_id
          /\ req'[r].session = [sid |-> row.session_id, contents |-> Empty,
                                modified |-> FALSE]]_vars

\* C3: when open_session finds an unexpired record whose data does not decode,
\* it does not raise and returns an empty Session Object under a newly minted
\* session id that differs from the cookie value.
C3_DecodeFailure ==
  [][\A r \in Requests : \A row \in store :
       ( /\ OpenStep(r)
         /\ req'[r].cookie = <<row.session_id>>
         /\ HasExpiry(row) /\ now < row.expires_at
         /\ ~loads(row.data).ok
         /\ req'[r].fault = "none" )
       => /\ req'[r].pc = "handling"
          /\ IsEmpty(req'[r].session.contents)
          /\ req'[r].session.sid # row.session_id]_vars

\* C4: save_session of a session that is empty and modified deletes the record
\* of session.sid if there is one, clears the cookie whether or not there was a
\* record, inserts and updates nothing and sets no cookie; afterwards the store
\* holds no record for session.sid (the store answering).
C4_EmptiedSave ==
  [][\A r \in Requests :
       ( /\ SaveStep(r)
         /\ IsEmpty(req[r].session.contents)
         /\ req[r].session.modified
         /\ req'[r].fault = "none" )
       => /\ req'[r].pc = "done"
          /\ store' = {x \in store : x.session_id # req[r].session.sid}
          /\ req'[r].response = <<DeleteCookie>>]_vars

C4_Witness ==
  \E r \in Requests :
    /\ req[r].pc = "done"
    /\ req[r].saved = "cleared"
    /\ req[r].opened = "valid"
    /\ IsEmpty(req[r].session.contents)
    /\ req[r].response = <<DeleteCookie>>
    /\ \A x \in store : x.session_id # req[r].session.sid

\* C5: save_session of a session that is empty and not modified leaves the store
\* as it was and puts neither a set-cookie nor a clear-cookie on the response.
C5_UntouchedSave ==
  [][\A r \in Requests :
       ( /\ SaveStep(r)
         /\ IsEmpty(req[r].session.contents)
         /\ ~req[r].session.modified )
       => /\ store' = store
          /\ req'[r].response = NoResponse]_vars

C5_Witness ==
  \E r \in Requests :
    /\ req[r].pc = "done"
    /\ req[r].saved = "untouched"
    /\ IsEmpty(req[r].session.contents)
    /\ ~req[r].session.modified
    /\ store # {}

\* C6: for a request without a cookie whose handler made the fresh session
\* non-empty, save_session inserts exactly one new record: its session_id is the
\* sid open returned, its id is fresh, its data decodes back to the session
\* contents; and the session cookie is set with that sid as its value.
C6_FirstSave ==
  [][\A r \in Requests :
       ( /\ SaveStep(r)
         /\ req[r].opened = "nocookie"
         /\ ~IsEmpty(req[r].session.contents)
         /\ req[r].session.modified
         /\ req'[r].fault = "none" )
       => /\ req'[r].pc = "done"
          /\ store \subseteq store'
          /\ \E new \in store' \ store :
               /\ store' = store \cup {new}
               /\ new.session_id = req[r].session.sid
               /\ \A x \in store : x.id # new.id
               /\ loads(new.data).ok
               /\ loads(new.data).value = req[r].session.contents
          /\ Len(req'[r].response) = 1
          /\ req'[r].response[1].op = "set_cookie"
          /\ req'[r].response[1].value = req[r].session.sid]_vars

C6_Witness ==
  \E r \in Requests : \E row \in store :
    /\ req[r].pc = "done"
    /\ req[r].opened = "nocookie"
    /\ req[r].saved = "inserted"
    /\ "user" \in DOMAIN req[r].session.contents
    /\ row.session_id = req[r].session.sid
    /\ loads(row.data).value = req[r].session.contents
    /\ SetCookies(r) # {}

\* C7: whenever save_session writes a non-empty session for which it computed
\* an expiration time (the one the cookie carries), the stored record's
\* expires_at after the commit equals that time, on insert and on update alike.
C7_ExpiryRecomputed ==
  [][\A r \in Requests :
       ( /\ SaveStep(r)
         /\ req'[r].pc = "done"
         /\ req'[r].saved \in {"inserted", "updated"}
         /\ req'[r].response[1].expires # NoneTime )
       => \A row \in store' :
            row.session_id = req[r].session.sid
            => row.expires_at = req'[r].response[1].expires]_vars

\* A record that has not expired (one without an expiry time never does).
LiveRecord(row) == ~HasExpiry(row) \/ now < row.expires_at

\* C8: in every reachable state, whatever the interleaving of the phases of
\* concurrent requests that carry the same cookie value, the store holds at most
\* one live (non-expired) record per session_id.
C8_OneLiveRecord ==
  \A a \in store : \A b \in store :
    (a.session_id = b.session_id /\ LiveRecord(a) /\ LiveRecord(b)) => a = b

\* The cookie of request r names a record that is expired or does not decode.
Stale(r, row) ==
  /\ req'[r].cookie = <<row.session_id>>
  /\ HasExpiry(row)
  /\ (row.expires_at <= now \/ ~loads(row.data).ok)

C10_SaveFailure ==
  [][\A r \in Requests :
       /\ (SaveStep(r) /\ req'[r].fault # "none")
          => /\ req'[r].pc = "error"
             /\ req'[r].error = "StoreError"
             /\ req'[r].response = NoResponse
             /\ store' = store
       /\ req[r].pc = "error" => req'[r] = req[r]]_vars

C10_Witness ==
  \E r \in Requests :
    /\ req[r].pc = "error"
    /\ req[r].saved = "inserted"
    /\ req[r].fault = "commit"
    /\ req[r].response = NoResponse
    /\ \A x \in store : x.session_id # req[r].session.sid

\* C11: save_session of a non-empty session for which the gate answers no (the
\* session is not modified, and is not permanent or the application does not
\* refresh cookies on each request) leaves the store as it was and sets and
\* clears no cookie; so does, in particular, a session loaded from an unexpired
\* record that the handler left unmodified and that is not permanent.
C11_GateClosed ==
  [][\A r \in Requests :
       ( /\ SaveStep(r)
         /\ ~IsEmpty(req[r].session.contents)
         /\ ~req[r].session.modified
         /\ (~Permanent(req[r].session.contents) \/ ~refresh) )
       => /\ store' = store
          /\ req'[r].response = NoResponse]_vars

C11_Witness ==
  \E r \in Requests :
    /\ req[r].pc = "done"
    /\ req[r].saved = "gate"
    /\ req[r].opened = "valid"
    /\ ~IsEmpty(req[r].session.contents)
    /\ ~req[r].session.modified
    /\ req[r].response = NoResponse
    /\ \E row \in store : row.session_id = req[r].session.sid

\* C12: when save_session sets the session cookie with value v, the store
\* already holds a committed record with session_id = v whose data decodes to
\* the session's contents.
C12_CommitBeforeCookie ==
  [][\A r \in Requests :
       ( /\ SaveStep(r)
         /\ \E i \in DOMAIN req'[r].response : req'[r].response[i].op = "set_cookie" )
       => \A i \in DOMAIN req'[r].response :
            \E row \in store' :
              /\ row.session_id = req'[r].response[i].value
              /\ loads(row.data).ok
              /\ loads(row.data).value = req[r].session.contents]_vars

C12_Witness ==
  \E r \in Requests : \E row \in store :
    /\ req[r].pc = "done"
    /\ req[r].saved = "updated"
    /\ SetCookies(r) # {}
    /\ row.session_id = req[r].response[1].value
    /\ loads(row.data).ok
    /\ loads(row.data).value = req[r].session.contents

\* Requests r and q both opened the record of the same cookie and both
\* modified their Session Objects.
BothOpened(r, q) ==
  /\ req[r].opened = "valid" /\ req[q].opened = "valid"
  /\ req[r].cookie = req[q].cookie
  /\ req[r].session.modified /\ req[q].session.modified

\* C13: last write wins. When two requests opened the same unexpired record
\* and both modified their sessions, and one commits its update after the
\* other has committed its own, the record's data is the serialized contents of
\* the one that committed last (nothing of the earlier save is merged in), and
\* exactly one record has that session id.
C13_LastWriteWins ==
  [][\A r \in Requests : \A q \in Requests \ {r} :
       ( /\ WriteStep(r)
         /\ BothOpened(r, q)
         /\ Persisted(q) /\ req[q].saved = "updated"
         /\ req'[r].pc = "done" /\ req'[r].saved = "updated" )
       => \E row \in store' :
            /\ row.data = dumps(req[r].session.contents)
            /\ {x \in store' : x.session_id = req[r].session.sid} = {row}]_vars

\* Both saves committed over the same record, their contents differ, and the
\* record holds the contents of one of them with none of the other's keys.
C13_Witness ==
  \E r \in Requests : \E q \in Requests \ {r} : \E row \in store :
    /\ BothOpened(r, q)
    /\ Persisted(r) /\ req[r].saved = "updated"
    /\ Persisted(q) /\ req[q].saved = "updated"
    /\ row.session_id = req[r].session.sid
    /\ row.data = dumps(req[r].session.contents)
    /\ "user" \in DOMAIN req[q].session.contents
    /\ "user" \notin DOMAIN req[r].session.contents
    /\ {x \in store : x.session_id = row.session_id} = {row}

\* C14: open_session mints a session id only when the request has no cookie
\* value or when the record found does not decode. Without a cookie the sid
\* returned is one no record and no cookie carries; with a cookie, a sid that
\* differs from the cookie value means an unexpired record of that value failed
\* to decode; in every other case (record missing, record expired and deleted,
\* record decoded) the sid is the cookie value, and a save that follows inserts
\* or updates the record of that client-supplied session id and no other.
C14_MintOnlyWhen ==
  [][\A r \in Requests :
       /\ ( OpenStep(r) /\ req'[r].pc = "handling" /\ req'[r].cookie = NoCookie )
          => /\ req'[r].session.sid = make_session_id(r)
             /\ <<req'[r].session.sid>> \notin Cookies
       /\ ( OpenStep(r) /\ req'[r].pc = "handling" /\ req'[r].cookie # NoCookie )
          => \/ req'[r].session.sid = req'[r].cookie[1]
             \/ /\ req'[r].session.sid = make_session_id(r)
                /\ \E row \in store :
                     /\ row.session_id = req'[r].cookie[1]
                     /\ HasExpiry(row) /\ now < row.expires_at
                     /\ ~loads(row.data).ok
       /\ ( /\ SaveStep(r)
            /\ req[r].opened \in {"missing", "expired", "valid"}
            /\ req'[r].pc = "done"
            /\ req'[r].saved \in {"inserted", "updated"} )
          => /\ \E row \in store' :
                  /\ row.session_id = req[r].cookie[1]
                  /\ row.data = dumps(req[r].session.contents)
             /\ \A x \in store' \ store : x.session_id = req[r].cookie[1]]_vars

\* A request whose cookie named an expired record saved its session: the new
\* record carries the cookie's value, which this request did not mint.
C14_Witness ==
  \E r \in Requests : \E row \in store :
    /\ req[r].opened = "expired"
    /\ req[r].pc = "done"
    /\ req[r].saved = "inserted"
    /\ req[r].session.sid = req[r].cookie[1]
    /\ req[r].session.sid # make_session_id(r)
    /\ row.session_id = req[r].cookie[1]
    /\ row.id = make_id(r)

\* C15: dirty tracking. The Session Object open returns after a successful
\* decode has modified = false; every key set, key delete and clear leaves
\* modified true (also one that leaves the contents as they were); a read leaves
\* the Session Object as it is; whatever changes the contents sets modified;
\* and once modified is true no step of the request makes it false.
C15_DirtyTracking ==
  [][\A r \in Requests :
       /\ ( OpenStep(r) /\ req'[r].opened = "valid" )
          => ~req'[r].session.modified
       /\ \A k \in Keys :
            /\ \A v \in Values : SetItem(r, k, v) => req'[r].session.modified
            /\ DelItem(r, k) => req'[r].session.modified
            /\ GetItem(r, k) => req'[r].session = req[r].session
       /\ Clear(r) => req'[r].session.modified
       /\ ( /\ req[r].pc = "handling"
            /\ req'[r].session.contents # req[r].session.contents )
          => req'[r].session.modified
       /\ req[r].session.modified => req'[r].session.modified]_vars

\* A decoded session from which the handler removed the permanent flag is
\* modified, and is saved as such.
C15_Witness ==
  \E r \in Requests : \E row \in store :
    /\ req[r].opened = "valid"
    /\ req[r].pc = "done"
    /\ req[r].saved = "updated"
    /\ req[r].session.modified
    /\ ~Permanent(req[r].session.contents)
    /\ row.session_id = req[r].session.sid
    /\ row.data = dumps(req[r].session.contents)

\* C16: for either value of the configured permanent default, the Session
\* Object open_session returns for a request without a cookie has empty
\* contents and modified = false; and if the handler leaves it alone, the save
\* phase writes no record and emits no cookie.
C16_FreshSessionClean ==
  [][\A r \in Requests :
       /\ ( OpenStep(r) /\ req'[r].cookie = NoCookie )
          => /\ IsEmpty(req'[r].session.contents)
             /\ ~req'[r].session.modified
       /\ ( /\ SaveStep(r)
            /\ req[r].opened = "nocookie"
            /\ req[r].session = NewSession(r) )
          => /\ store' = store
             /\ req'[r].response = NoResponse]_vars

\* C17: the only change open_session makes to the store is to remove the
\* record of the cookie's session id that it found expired. When there is no
\* cookie, no record, or a record that is not expired (decoded or not), open
\* leaves the store as it was: a record that fails to decode stays in it.
C17_OpenFrame ==
  [][\A r \in Requests :
       OpenStep(r) =>
         LET expired == {row \in store : /\ req'[r].cookie = <<row.session_id>>
                                         /\ HasExpiry(row)
                                         /\ row.expires_at <= now}
         IN /\ store' = store \/ \E row \in expired : store' = store \ {row}
            /\ expired = {} => store' = store]_vars

\* Open recovered from a record that does not decode, and the record is still
\* in the store.
C17_Witness ==
  \E r \in Requests : \E row \in store :
    /\ req[r].pc = "handling"
    /\ req[r].opened = "corrupt"
    /\ req[r].cookie = <<row.session_id>>
    /\ ~loads(row.data).ok
    /\ now < row.expires_at

\* Rows x and y are the same record: same record id, session id and owner.
SameRecord(x, y) ==
  /\ x.id = y.id /\ x.session_id = y.session_id /\ x.user_id = y.user_id

\* C18: record identity is immutable. In every step, each record of the store
\* is either a record that was there, with the record id, session id and owning
\* user id it had, or the record a save phase inserts, which has no owner; and
\* the update path of save_session changes nothing but data and expiry.
C18_IdentityImmutable ==
  [][/\ \A x \in store' :
          \/ \E y \in store : SameRecord(x, y)
          \/ /\ \A y \in store : y.id # x.id
             /\ x.user_id = NoUser
             /\ \E r \in Requests : /\ WriteStep(r)
                                     /\ x.id = make_id(r)
                                     /\ x.session_id = req[r].session.sid
     /\ \A r \in Requests :
          ( WriteStep(r) /\ req'[r].pc = "done" /\ req'[r].saved = "updated" )
          => /\ {x.id : x \in store'} = {y.id : y \in store}
             /\ \A x \in store' : \E y \in store :
                  [x EXCEPT !.data = y.data, !.expires_at = y.expires_at] = y]_vars

\* The earlier record was updated by a request and a second record was
\* inserted: the first kept its ids and its owner, the second has none.
C18_Witness ==
  \E r \in Requests : \E q \in Requests \ {r} : \E x \in store : \E z \in store :
    /\ Persisted(r) /\ req[r].saved = "updated"
    /\ req[r].session.sid = Earlier.session_id
    /\ SameRecord(x, Earlier)
    /\ x.data # Earlier.data
    /\ Persisted(q) /\ req[q].saved = "inserted"
    /\ z.id = make_id(q)
    /\ z.user_id = NoUser

\* C19: starting from an empty store, no record ever holds an empty mapping:
\* the data of every record was written from at least one key, and whenever it
\* decodes it decodes to a mapping with at least one key.
C19_NoEmptyRecord ==
  \A row \in store :
    /\ row.data.body # << >>
    /\ loads(row.data).ok => DOMAIN loads(row.data).value # {}

\* A session was saved with contents, then reopened and emptied: its record
\* was deleted rather than rewritten empty, and the store is empty again.
C19_Witness ==
  \E r \in Requests : \E q \in Requests \ {r} :
    /\ Persisted(q) /\ req[q].saved = "inserted"
    /\ DOMAIN req[q].session.contents # {}
    /\ req[r].cookie = <<req[q].session.sid>>
    /\ req[r].opened = "valid"
    /\ req[r].pc = "done" /\ req[r].saved = "cleared"
    /\ DOMAIN req[r].session.contents = {}
    /\ store = {}

====
